---- MODULE Spec2Model ----
(***************************************************************************)
(* MultiplayerManager (src/src/utils/multiplayer.ts): the shared-state     *)
(* synchronisation core.  Every browsing context (tab) owns one manager    *)
(* with its own rooms / gameStates / listeners maps and its own 2 s timer; *)
(* all contexts share one localStorage.                                    *)
(*                                                                         *)
(* Modelling conventions                                                   *)
(*  - a JavaScript Map is a sequence of <<key, value>> entries in          *)
(*    insertion order (Map.set on a present key keeps its position,        *)
(*    Map.delete removes the entry, values() walks the sequence);          *)
(*  - null / undefined / an absent localStorage key is the empty sequence  *)
(*    <<>>, a present value v is <<v>>;                                    *)
(*  - a timestamp is the integer millisecond reading of the clock;         *)
(*    toISOString followed by new Date(..) gives that integer back, and    *)
(*    the comparison of two Date objects compares the integers;            *)
(*  - a localStorage value is held as what JSON.parse returns for the      *)
(*    stored text: JSON.stringify turns a Date object into its ISO string  *)
(*    (Stringify), everything else the model stores is kept as is;         *)
(*  - every handler runs to completion (one action each); the handlers of  *)
(*    different contexts interleave.                                       *)
(***************************************************************************)
EXTENDS Integers, Sequences, FiniteSets, TLC

VARIABLES
    rooms,          \* rooms[c]: Map<string, Room> of context c
    gameStates,     \* gameStates[c]: Map<string, GameState> of context c
    listeners,      \* listeners[c][event]: the callback array of the channel
    syncInterval,   \* "none" (no instance yet), "active", "cleared"
    storage,        \* localStorage, shared by all contexts
    now,            \* the wall clock (Date.now()), in milliseconds
    budget,         \* API calls still allowed (bounds the run)
    last,           \* the handler that ran last: its context, name, arguments
                    \* and the value it returned
    published,      \* the notifyListeners calls that handler made, in order
    invoked,        \* the callback invocations that handler made, in order
    observed,       \* observed[i]: the repository as the callbacks of the i-th
                    \* notifyListeners call of that handler found it
    removed         \* <<c, id>>: a leaveRoom of context c removed room id, and
                    \* c has called neither createRoom nor updateGameState for
                    \* id since

vars == <<rooms, gameStates, listeners, syncInterval, storage, now, budget,
          last, published, invoked, observed, removed>>

----------------------------------------------------------------------------
(* Bounds and input domains *)

MaxOps == 2
MaxListeners == 3
MaxPubOps == 1
MaxLifeOps == 1
SmallestCapacity == 2

Contexts == {1, 2}
RoomIds == {"R1", "R2"}
Players == {"alice", "bob", "carol"}
Statuses == {"waiting", "playing", "finished"}
Payloads == {"g2"}
Callbacks == {"plain", "once", "renew"}

RoomChannel(id) == "room:" \o id
GameChannel(id) == "game:" \o id
Channels == {"rooms"} \cup {RoomChannel(id) : id \in RoomIds}
                      \cup {GameChannel(id) : id \in RoomIds}

Null == <<>>
Some(v) == <<v>>

\* F applied to the value of e: a statement's result handed to the statements
\* that follow it (e is evaluated once, as the statement is executed once)
Bind(e, F(_)) == CHOOSE r \in {F(x) : x \in {e}} : TRUE

----------------------------------------------------------------------------
(* Timestamps and serialisation *)

DateObj(t) == [kind |-> "Date", ms |-> t]
IsoString(t) == [kind |-> "string", ms |-> t]

\* JSON.stringify of one value that may be a Date: Date.prototype.toJSON
ToJSON(v) == IF v.kind = "Date" THEN IsoString(v.ms) ELSE v

StringifyRoom(room) == [room EXCEPT !.createdAt = ToJSON(@)]

StringifyRooms(roomsArray) ==
    [i \in DOMAIN roomsArray |-> StringifyRoom(roomsArray[i])]

----------------------------------------------------------------------------
(* Map<string, V> *)

MapIndex(m, key) ==
    IF \E i \in DOMAIN m : m[i][1] = key
    THEN CHOOSE i \in DOMAIN m : m[i][1] = key
    ELSE 0

MapHas(m, key) == MapIndex(m, key) # 0

MapGet(m, key) ==
    IF MapHas(m, key) THEN Some(m[MapIndex(m, key)][2]) ELSE Null

MapSet(m, key, value) ==
    IF MapHas(m, key)
    THEN [m EXCEPT ![MapIndex(m, key)] = <<key, value>>]
    ELSE Append(m, <<key, value>>)

MapDelete(m, key) ==
    IF MapHas(m, key)
    THEN LET i == MapIndex(m, key)
         IN  SubSeq(m, 1, i - 1) \o SubSeq(m, i + 1, Len(m))
    ELSE m

MapValues(m) == [i \in DOMAIN m |-> m[i][2]]

MapKeys(m) == {m[i][1] : i \in DOMAIN m}

----------------------------------------------------------------------------
(* Persistence: the three localStorage keys *)

EmptyStorage ==
    [addaGameRooms |-> Null, addaGameStates |-> Null, addaMultiplayerSync |-> Null]

\* saveToStorage that keeps the snapshot's rooms the writer does not hold
SaveToStorageMerging(st, rs, gs, t, failAt) ==
    LET roomsArray == StringifyRooms(MapValues(rs))
        gameStatesArray == MapValues(gs)
        stale == IF st.addaMultiplayerSync = Null THEN <<>>
                 ELSE SelectSeq(st.addaMultiplayerSync[1].rooms,
                                LAMBDA r : ~MapHas(rs, r.id))
        sharedData == [rooms |-> roomsArray \o stale,
                       gameStates |-> gameStatesArray, lastSync |-> t]
    IN  [addaGameRooms |-> Some(roomsArray),
         addaGameStates |-> Some(gameStatesArray),
         addaMultiplayerSync |-> Some(sharedData)]

\* saveToStorage.  failAt = 0: every setItem succeeds; failAt = k (1..3): the
\* k-th setItem throws, the catch logs it and the later writes are skipped.
SaveToStorage(st, rs, gs, t, failAt) ==
    LET roomsArray == StringifyRooms(MapValues(rs))
        gameStatesArray == MapValues(gs)
        sharedData == [rooms |-> roomsArray, gameStates |-> gameStatesArray,
                       lastSync |-> t]
        st1 == [st EXCEPT !.addaGameRooms = Some(roomsArray)]
        st2 == [st1 EXCEPT !.addaGameStates = Some(gameStatesArray)]
        st3 == [st2 EXCEPT !.addaMultiplayerSync = Some(sharedData)]
    IN  CASE failAt = 1 -> st
          [] failAt = 2 -> st1
          [] failAt = 3 -> st2
          [] OTHER -> st3

RECURSIVE SetAll(_, _, _, _)
\* array.forEach(e => map.set(key(e), e)); rooms are keyed by id, game states
\* by roomId
SetAll(m, array, i, isRoom) ==
    IF i > Len(array) THEN m
    ELSE SetAll(MapSet(m, IF isRoom THEN array[i].id ELSE array[i].roomId, array[i]),
                array, i + 1, isRoom)

\* loadFromStorage: the two collection keys, not the combined snapshot
LoadFromStorage(st) ==
    [rooms |-> IF st.addaGameRooms = Null THEN <<>>
               ELSE SetAll(<<>>, st.addaGameRooms[1], 1, TRUE),
     gameStates |-> IF st.addaGameStates = Null THEN <<>>
                    ELSE SetAll(<<>>, st.addaGameStates[1], 1, FALSE)]

----------------------------------------------------------------------------
(* Event channels *)

NoListeners == [event \in Channels |-> <<>>]

\* Array.prototype.indexOf: the first index holding callback, 0 if none
IndexOf(array, callback) ==
    IF \E i \in DOMAIN array : array[i] = callback
    THEN CHOOSE i \in DOMAIN array :
            /\ array[i] = callback
            /\ \A j \in 1..(i - 1) : array[j] # callback
    ELSE 0

\* on(event, callback)
ListenersOn(ls, event, callback) == [ls EXCEPT ![event] = Append(@, callback)]

\* off that removes the entry registered last instead of the earliest
ListenersOffLast(ls, event, callback) ==
    LET hits == {i \in DOMAIN ls[event] : ls[event][i] = callback}
    IN  IF hits # {}
        THEN LET index == CHOOSE i \in hits : \A j \in hits : j <= i
             IN  [ls EXCEPT ![event] =
                     SubSeq(@, 1, index - 1) \o SubSeq(@, index + 1, Len(@))]
        ELSE ls

\* off(event, callback)
ListenersOff(ls, event, callback) ==
    LET index == IndexOf(ls[event], callback)
    IN  IF index > 0
        THEN [ls EXCEPT ![event] =
                 SubSeq(@, 1, index - 1) \o SubSeq(@, index + 1, Len(@))]
        ELSE ls

\* One delivery (one notifyListeners call) in progress is the record d:
\*   listeners  the listeners map;
\*   attached   the array forEach walks is still the map's array for the event
\*              (listeners.clear() drops the map's entries, not the array);
\*   array      the array forEach walks once it is no longer in the map;
\*   destroyed  a callback has called destroy();
\*   invoked    the callbacks called so far.

\* The array forEach is walking
Iterated(d, event) == IF d.attached THEN d.listeners[event] ELSE d.array

\* destroy() called while the delivery is in progress
DestroyInDelivery(d, event) ==
    [d EXCEPT !.listeners = NoListeners,
              !.array = Iterated(d, event),
              !.attached = FALSE,
              !.destroyed = TRUE]

\* What a subscriber does to the manager while it is being called:
\*   "plain"      only consumes the payload (handleRoomsUpdate of the room
\*                screen);
\*   "once"       unsubscribes itself (a one-shot listener);
\*   "renew"      unsubscribes and subscribes itself again (what the room
\*                screen's effect clean-up and re-run do to its handlers);
\*   "destroyer"  tears the manager down (destroy()).
RunCallback(d, event, callback) ==
    CASE callback = "once" ->
            [d EXCEPT !.listeners = ListenersOff(@, event, callback)]
      [] callback = "renew" ->
            [d EXCEPT !.listeners =
                 ListenersOn(ListenersOff(@, event, callback), event, callback)]
      [] callback = "destroyer" -> DestroyInDelivery(d, event)
      [] OTHER -> d

RECURSIVE ForEachListener(_, _, _, _)
\* eventListeners.forEach(callback => callback(data)): forEach reads the length
\* once (len) and then visits the indices 1..len of the live array, skipping an
\* index the array no longer has.
ForEachListener(d, event, k, len) ==
    IF k > len THEN d
    ELSE IF k > Len(Iterated(d, event)) THEN ForEachListener(d, event, k + 1, len)
    ELSE LET callback == Iterated(d, event)[k]
             called == [d EXCEPT !.invoked = Append(@, <<event, callback>>)]
         IN  Bind(RunCallback(called, event, callback),
                  LAMBDA after : ForEachListener(after, event, k + 1, len))

\* notifyListeners(event, data)
NotifyListeners(ls, event) ==
    ForEachListener([listeners |-> ls, attached |-> TRUE, array |-> <<>>,
                     destroyed |-> FALSE, invoked |-> <<>>],
                    event, 1, Len(ls[event]))

\* notifyListeners that delivers the room list only and drops the per-entity
\* notifications
PublishAggregateOnly(st, event, data) ==
    IF event # "rooms" THEN st
    ELSE Bind(NotifyListeners(st.listeners, event),
              LAMBDA r : [st EXCEPT !.listeners = r.listeners,
                                    !.published = Append(@, <<event, data>>),
                                    !.invoked = @ \o r.invoked,
                                    !.observed = Append(@, [rooms |-> st.rooms,
                                                            gameStates |-> st.gameStates]),
                                    !.syncInterval = IF r.destroyed THEN "cleared"
                                                     ELSE @])

\* One notifyListeners call made by a handler whose running state is st
Publish(st, event, data) ==
    Bind(NotifyListeners(st.listeners, event),
         LAMBDA r : [st EXCEPT !.listeners = r.listeners,
                               !.published = Append(@, <<event, data>>),
                               !.invoked = @ \o r.invoked,
                               !.observed = Append(@, [rooms |-> st.rooms,
                                                       gameStates |-> st.gameStates]),
                               !.syncInterval = IF r.destroyed THEN "cleared"
                                                ELSE @])

----------------------------------------------------------------------------
(* The Reconciler *)

\* Newer with the tie going to the remote copy
NewerOrEqual(remote, existing) == remote.lastUpdated >= existing.lastUpdated

\* new Date(remote.lastUpdated) > new Date(existing.lastUpdated)
Newer(remote, existing) == remote.lastUpdated > existing.lastUpdated

RECURSIVE MergeRooms(_, _, _)
\* data.rooms.forEach(...)
MergeRooms(st, remote, i) ==
    IF i > Len(remote) THEN st
    ELSE LET room == remote[i]
             existing == MapGet(st.rooms, room.id)
         IN  IF existing = Null \/ Newer(room, existing[1])
             THEN Bind(Publish([st EXCEPT !.rooms = MapSet(@, room.id, room)],
                               RoomChannel(room.id), room),
                       LAMBDA merged : MergeRooms(merged, remote, i + 1))
             ELSE MergeRooms(st, remote, i + 1)

RECURSIVE MergeGameStates(_, _, _)
\* data.gameStates.forEach(...)
MergeGameStates(st, remote, i) ==
    IF i > Len(remote) THEN st
    ELSE LET state == remote[i]
             existing == MapGet(st.gameStates, state.roomId)
         IN  IF existing = Null \/ Newer(state, existing[1])
             THEN Bind(Publish([st EXCEPT
                                    !.gameStates = MapSet(@, state.roomId, state)],
                               GameChannel(state.roomId), state),
                       LAMBDA merged : MergeGameStates(merged, remote, i + 1))
             ELSE MergeGameStates(st, remote, i + 1)

\* syncWithOtherDevices that first drops what the snapshot does not hold
SyncResultMirror(st0, sharedData) ==
    IF sharedData = Null THEN st0
    ELSE LET data == sharedData[1]
             roomIds == {data.rooms[i].id : i \in DOMAIN data.rooms}
             stateIds == {data.gameStates[i].roomId : i \in DOMAIN data.gameStates}
             st1 == MergeRooms(
                        [st0 EXCEPT
                            !.rooms = SelectSeq(@, LAMBDA e : e[1] \in roomIds),
                            !.gameStates = SelectSeq(@, LAMBDA e : e[1] \in stateIds)],
                        data.rooms, 1)
             st2 == MergeGameStates(st1, data.gameStates, 1)
         IN  Publish(st2, "rooms", MapValues(st2.rooms))

\* syncWithOtherDevices that publishes the room list only after a change
SyncResultQuiet(st0, sharedData) ==
    IF sharedData = Null THEN st0
    ELSE LET data == sharedData[1]
             st1 == MergeRooms(st0, data.rooms, 1)
             st2 == MergeGameStates(st1, data.gameStates, 1)
         IN  IF st2.published = <<>> THEN st2
             ELSE Publish(st2, "rooms", MapValues(st2.rooms))

\* The body of syncWithOtherDevices on the manager state st0 and the value
\* sharedData read from the snapshot key
\* syncWithOtherDevices that merges the game states before the rooms
SyncResultGamesFirst(st0, sharedData) ==
    IF sharedData = Null THEN st0
    ELSE LET data == sharedData[1]
         IN  Bind(MergeGameStates(st0, data.gameStates, 1), LAMBDA st1 :
             Bind(MergeRooms(st1, data.rooms, 1), LAMBDA st2 :
             Publish(st2, "rooms", MapValues(st2.rooms))))

SyncResult(st0, sharedData) ==
    IF sharedData = Null THEN st0
    ELSE LET data == sharedData[1]
         IN  Bind(MergeRooms(st0, data.rooms, 1), LAMBDA st1 :
             Bind(MergeGameStates(st1, data.gameStates, 1), LAMBDA st2 :
             Publish(st2, "rooms", MapValues(st2.rooms))))

\* The record of one handler run
Handler(c, op, id, arg, result) ==
    [ctx |-> c, op |-> op, id |-> id, arg |-> arg, result |-> result]

\* The state a handler of context c starts from: nothing published yet
Running(c) ==
    [rooms |-> rooms[c], gameStates |-> gameStates[c], listeners |-> listeners[c],
     syncInterval |-> syncInterval[c], published |-> <<>>, invoked |-> <<>>,
     observed |-> <<>>]

\* A timer callback that persists the repository it merged
SyncWithOtherDevicesSaving(c) ==
    /\ syncInterval[c] = "active"
    /\ \E st \in {SyncResult(Running(c), storage.addaMultiplayerSync)} :
           /\ rooms' = [rooms EXCEPT ![c] = st.rooms]
           /\ gameStates' = [gameStates EXCEPT ![c] = st.gameStates]
           /\ listeners' = [listeners EXCEPT ![c] = st.listeners]
           /\ syncInterval' = [syncInterval EXCEPT ![c] = st.syncInterval]
           /\ published' = st.published
           /\ invoked' = st.invoked
           /\ observed' = st.observed
           /\ storage' = IF storage.addaMultiplayerSync = Null THEN storage
                         ELSE SaveToStorage(storage, st.rooms, st.gameStates, now, 0)
    /\ last' = Handler(c, "sync", "", "", Null)
    /\ UNCHANGED <<now, budget, removed>>

\* The timer callback of context c
SyncWithOtherDevices(c) ==
    /\ syncInterval[c] = "active"
    /\ \E st \in {SyncResult(Running(c), storage.addaMultiplayerSync)} :
           /\ rooms' = [rooms EXCEPT ![c] = st.rooms]
           /\ gameStates' = [gameStates EXCEPT ![c] = st.gameStates]
           /\ listeners' = [listeners EXCEPT ![c] = st.listeners]
           /\ syncInterval' = [syncInterval EXCEPT ![c] = st.syncInterval]
           /\ published' = st.published
           /\ invoked' = st.invoked
           /\ observed' = st.observed
    /\ last' = Handler(c, "sync", "", "", Null)
    /\ UNCHANGED <<storage, now, budget, removed>>

----------------------------------------------------------------------------
(* Room Lifecycle API and Game State API *)

Range(seq) == {seq[i] : i \in DOMAIN seq}

\* A caller-assembled createRoom argument (Omit<Room, 'lastUpdated'>)
RoomData(id, host, players, status, createdAt) ==
    [id |-> id, name |-> "Friends", host |-> host, players |-> players,
     game |-> "SpyGame", status |-> status, maxPlayers |-> SmallestCapacity,
     createdAt |-> createdAt]

\* { ...roomData, lastUpdated }
WithLastUpdated(roomData, t) ==
    [id |-> roomData.id, name |-> roomData.name, host |-> roomData.host,
     players |-> roomData.players, game |-> roomData.game,
     status |-> roomData.status, maxPlayers |-> roomData.maxPlayers,
     createdAt |-> roomData.createdAt, lastUpdated |-> t]

\* What the room screen's createRoom assembles at clock reading t
ScreenRoomData(t) ==
    {RoomData(id, host, <<host>>, "waiting", DateObj(t)) :
        id \in RoomIds, host \in {"alice"}}

\* Every argument the model passes to createRoom at clock reading t
AnyRoomData(t) ==
    {RoomData(id, host, players, status, DateObj(t)) :
        id \in RoomIds, host \in {"alice"},
        players \in {<<>>, <<"alice">>, <<"alice", "bob">>, <<"bob">>},
        status \in {"waiting", "playing"}}

\* Each operation below maps the repository rp = [rooms, gameStates] and its
\* arguments to the repository afterwards, the value returned and whether
\* saveToStorage was called.

\* createRoom that itself sets players to [host] and status to waiting
CreateRoomNormalising(rp, roomData, t) ==
    LET room == [WithLastUpdated(roomData, t) EXCEPT
                    !.players = <<roomData.host>>, !.status = "waiting"]
    IN  [rooms |-> MapSet(rp.rooms, room.id, room), gameStates |-> rp.gameStates,
         result |-> Some(room), save |-> TRUE]

\* createRoom with a collision check: an id the repository holds is refused
CreateRoomChecking(rp, roomData, t) ==
    LET room == WithLastUpdated(roomData, t)
    IN  IF MapHas(rp.rooms, roomData.id)
        THEN [rooms |-> rp.rooms, gameStates |-> rp.gameStates,
              result |-> Null, save |-> FALSE]
        ELSE [rooms |-> MapSet(rp.rooms, room.id, room),
              gameStates |-> rp.gameStates,
              result |-> Some(room), save |-> TRUE]

CreateRoomResult(rp, roomData, t) ==
    LET room == WithLastUpdated(roomData, t)
    IN  [rooms |-> MapSet(rp.rooms, room.id, room), gameStates |-> rp.gameStates,
         result |-> Some(room), save |-> TRUE]

\* joinRoom without the membership test
JoinRoomNoMemberCheck(rp, roomId, playerName, t) ==
    LET room == MapGet(rp.rooms, roomId)
        unchanged == [rooms |-> rp.rooms, gameStates |-> rp.gameStates,
                      result |-> Null, save |-> FALSE]
    IN  IF room = Null THEN unchanged
        ELSE IF Len(room[1].players) >= room[1].maxPlayers THEN unchanged
        ELSE LET updatedRoom ==
                    [room[1] EXCEPT !.players = Append(@, playerName),
                                    !.lastUpdated = t]
             IN  [rooms |-> MapSet(rp.rooms, roomId, updatedRoom),
                  gameStates |-> rp.gameStates,
                  result |-> Some(updatedRoom), save |-> TRUE]

\* joinRoom whose capacity test is off by one (> for >=)
JoinRoomOffByOne(rp, roomId, playerName, t) ==
    LET room == MapGet(rp.rooms, roomId)
        unchanged == [rooms |-> rp.rooms, gameStates |-> rp.gameStates,
                      result |-> Null, save |-> FALSE]
    IN  IF room = Null THEN unchanged
        ELSE IF playerName \in Range(room[1].players)
             THEN [unchanged EXCEPT !.result = room]
        ELSE IF Len(room[1].players) > room[1].maxPlayers THEN unchanged
        ELSE LET updatedRoom ==
                    [room[1] EXCEPT !.players = Append(@, playerName),
                                    !.lastUpdated = t]
             IN  [rooms |-> MapSet(rp.rooms, roomId, updatedRoom),
                  gameStates |-> rp.gameStates,
                  result |-> Some(updatedRoom), save |-> TRUE]

JoinRoomResult(rp, roomId, playerName, t) ==
    LET room == MapGet(rp.rooms, roomId)
        unchanged == [rooms |-> rp.rooms, gameStates |-> rp.gameStates,
                      result |-> Null, save |-> FALSE]
    IN  IF room = Null THEN unchanged
        ELSE IF playerName \in Range(room[1].players)
             THEN [unchanged EXCEPT !.result = room]
        ELSE IF Len(room[1].players) >= room[1].maxPlayers THEN unchanged
        ELSE LET updatedRoom ==
                    [room[1] EXCEPT !.players = Append(@, playerName),
                                    !.lastUpdated = t]
             IN  [rooms |-> MapSet(rp.rooms, roomId, updatedRoom),
                  gameStates |-> rp.gameStates,
                  result |-> Some(updatedRoom), save |-> TRUE]

\* leaveRoom that forgets this.gameStates.delete(roomId)
LeaveRoomKeepsGameState(rp, roomId, playerName, t) ==
    LET room == MapGet(rp.rooms, roomId)
    IN  IF room = Null
        THEN [rooms |-> rp.rooms, gameStates |-> rp.gameStates,
              result |-> Null, save |-> FALSE]
        ELSE LET updatedPlayers ==
                    SelectSeq(room[1].players, LAMBDA p : p # playerName)
                 updatedRoom ==
                    [room[1] EXCEPT
                        !.players = updatedPlayers,
                        !.host = IF @ = playerName /\ Len(updatedPlayers) > 0
                                 THEN updatedPlayers[1] ELSE @,
                        !.lastUpdated = t]
             IN  IF Len(updatedPlayers) = 0
                 THEN [rooms |-> MapDelete(rp.rooms, roomId),
                       gameStates |-> rp.gameStates,
                       result |-> Null, save |-> TRUE]
                 ELSE [rooms |-> MapSet(rp.rooms, roomId, updatedRoom),
                       gameStates |-> rp.gameStates,
                       result |-> Some(updatedRoom), save |-> TRUE]

\* leaveRoom that stores the emptied room instead of deleting it
LeaveRoomStoresEmpty(rp, roomId, playerName, t) ==
    LET room == MapGet(rp.rooms, roomId)
    IN  IF room = Null
        THEN [rooms |-> rp.rooms, gameStates |-> rp.gameStates,
              result |-> Null, save |-> FALSE]
        ELSE LET updatedPlayers ==
                    SelectSeq(room[1].players, LAMBDA p : p # playerName)
                 updatedRoom ==
                    [room[1] EXCEPT
                        !.players = updatedPlayers,
                        !.host = IF @ = playerName /\ Len(updatedPlayers) > 0
                                 THEN updatedPlayers[1] ELSE @,
                        !.lastUpdated = t]
             IN  [rooms |-> MapSet(rp.rooms, roomId, updatedRoom),
                  gameStates |-> rp.gameStates,
                  result |-> IF Len(updatedPlayers) = 0 THEN Null
                             ELSE Some(updatedRoom),
                  save |-> TRUE]

\* leaveRoom that never reassigns the host
LeaveRoomKeepsHost(rp, roomId, playerName, t) ==
    LET room == MapGet(rp.rooms, roomId)
    IN  IF room = Null
        THEN [rooms |-> rp.rooms, gameStates |-> rp.gameStates,
              result |-> Null, save |-> FALSE]
        ELSE LET updatedPlayers ==
                    SelectSeq(room[1].players, LAMBDA p : p # playerName)
                 updatedRoom ==
                    [room[1] EXCEPT !.players = updatedPlayers,
                                    !.lastUpdated = t]
             IN  IF Len(updatedPlayers) = 0
                 THEN [rooms |-> MapDelete(rp.rooms, roomId),
                       gameStates |-> MapDelete(rp.gameStates, roomId),
                       result |-> Null, save |-> TRUE]
                 ELSE [rooms |-> MapSet(rp.rooms, roomId, updatedRoom),
                       gameStates |-> rp.gameStates,
                       result |-> Some(updatedRoom), save |-> TRUE]

LeaveRoomResult(rp, roomId, playerName, t) ==
    LET room == MapGet(rp.rooms, roomId)
    IN  IF room = Null
        THEN [rooms |-> rp.rooms, gameStates |-> rp.gameStates,
              result |-> Null, save |-> FALSE]
        ELSE LET updatedPlayers ==
                    SelectSeq(room[1].players, LAMBDA p : p # playerName)
                 updatedRoom ==
                    [room[1] EXCEPT
                        !.players = updatedPlayers,
                        !.host = IF @ = playerName /\ Len(updatedPlayers) > 0
                                 THEN updatedPlayers[1] ELSE @,
                        !.lastUpdated = t]
             IN  IF Len(updatedPlayers) = 0
                 THEN [rooms |-> MapDelete(rp.rooms, roomId),
                       gameStates |-> MapDelete(rp.gameStates, roomId),
                       result |-> Null, save |-> TRUE]
                 ELSE [rooms |-> MapSet(rp.rooms, roomId, updatedRoom),
                       gameStates |-> rp.gameStates,
                       result |-> Some(updatedRoom), save |-> TRUE]

\* updateRoomStatus that validates the transition: a finished room stays
\* finished
UpdateRoomStatusGuarded(rp, roomId, status, t) ==
    LET room == MapGet(rp.rooms, roomId)
        unchanged == [rooms |-> rp.rooms, gameStates |-> rp.gameStates,
                      result |-> Null, save |-> FALSE]
    IN  IF room = Null THEN unchanged
        ELSE IF room[1].status = "finished" /\ status # "finished" THEN unchanged
        ELSE LET updatedRoom == [room[1] EXCEPT !.status = status,
                                                !.lastUpdated = t]
             IN  [rooms |-> MapSet(rp.rooms, roomId, updatedRoom),
                  gameStates |-> rp.gameStates,
                  result |-> Some(updatedRoom), save |-> TRUE]

\* updateRoomStatus that calls saveToStorage on the not-found path too
UpdateRoomStatusSavingAlways(rp, roomId, status, t) ==
    LET room == MapGet(rp.rooms, roomId)
    IN  IF room = Null
        THEN [rooms |-> rp.rooms, gameStates |-> rp.gameStates,
              result |-> Null, save |-> TRUE]
        ELSE LET updatedRoom == [room[1] EXCEPT !.status = status,
                                                !.lastUpdated = t]
             IN  [rooms |-> MapSet(rp.rooms, roomId, updatedRoom),
                  gameStates |-> rp.gameStates,
                  result |-> Some(updatedRoom), save |-> TRUE]

UpdateRoomStatusResult(rp, roomId, status, t) ==
    LET room == MapGet(rp.rooms, roomId)
    IN  IF room = Null
        THEN [rooms |-> rp.rooms, gameStates |-> rp.gameStates,
              result |-> Null, save |-> FALSE]
        ELSE LET updatedRoom == [room[1] EXCEPT !.status = status,
                                                !.lastUpdated = t]
             IN  [rooms |-> MapSet(rp.rooms, roomId, updatedRoom),
                  gameStates |-> rp.gameStates,
                  result |-> Some(updatedRoom), save |-> TRUE]

\* updateGameState that keeps the stamp of the game state it replaces
UpdateGameStateKeepsStamp(rp, roomId, gameData, t) ==
    LET existing == MapGet(rp.gameStates, roomId)
        gameState == [roomId |-> roomId, gameData |-> gameData,
                      lastUpdated |-> IF existing = Null THEN t
                                      ELSE existing[1].lastUpdated]
    IN  [rooms |-> rp.rooms,
         gameStates |-> MapSet(rp.gameStates, roomId, gameState),
         result |-> Null, save |-> TRUE]

UpdateGameStateResult(rp, roomId, gameData, t) ==
    LET gameState == [roomId |-> roomId, gameData |-> gameData, lastUpdated |-> t]
    IN  [rooms |-> rp.rooms,
         gameStates |-> MapSet(rp.gameStates, roomId, gameState),
         result |-> Null, save |-> TRUE]

\* getRoom(roomId) and getGameState(roomId) of context c
GetRoom(c, roomId) == MapGet(rooms[c], roomId)
GetGameState(c, roomId) == MapGet(gameStates[c], roomId)

Repo(c) == [rooms |-> rooms[c], gameStates |-> gameStates[c]]

\* The clock readings a call made now can get: the clock never runs backwards,
\* and two calls can fall into the same millisecond
Readings == {now, now + 1}

\* An API call whose failed write undoes the call: the repository is left as
\* it was and null is returned
CallRollingBack(c, op, id, arg, out, t, f) ==
    LET failed == out.save /\ f # 0
    IN  /\ syncInterval[c] # "none"
        /\ budget > 0
        /\ budget' = budget - 1
        /\ now' = IF out.save THEN t ELSE now
        /\ rooms' = IF failed THEN rooms ELSE [rooms EXCEPT ![c] = out.rooms]
        /\ gameStates' = IF failed THEN gameStates
                         ELSE [gameStates EXCEPT ![c] = out.gameStates]
        /\ storage' = IF out.save
                      THEN SaveToStorage(storage, out.rooms, out.gameStates, t, f)
                      ELSE storage
        /\ last' = Handler(c, op, id, arg, IF failed THEN Null ELSE out.result)
        /\ published' = <<>>
        /\ invoked' = <<>>
        /\ observed' = <<>>
        /\ UNCHANGED <<listeners, syncInterval, removed>>

\* Context c runs one API call to completion: out is its outcome, t the clock
\* reading it gets if it reads the clock (only the paths that stamp and save
\* do), f the setItem that fails in saveToStorage (0: none)
Call(c, op, id, arg, out, t, f) ==
    /\ syncInterval[c] # "none"
    /\ budget > 0
    /\ budget' = budget - 1
    /\ now' = IF out.save THEN t ELSE now
    /\ rooms' = [rooms EXCEPT ![c] = out.rooms]
    /\ gameStates' = [gameStates EXCEPT ![c] = out.gameStates]
    /\ storage' = IF out.save
                  THEN SaveToStorage(storage, out.rooms, out.gameStates, t, f)
                  ELSE storage
    /\ last' = Handler(c, op, id, arg, out.result)
    /\ published' = <<>>
    /\ invoked' = <<>>
    /\ observed' = <<>>
    /\ removed' = CASE op = "leaveRoom" /\ MapHas(rooms[c], id)
                                        /\ ~MapHas(out.rooms, id) ->
                            removed \cup {<<c, id>>}
                     [] op \in {"createRoom", "updateGameState"} ->
                            removed \ {<<c, id>>}
                     [] OTHER -> removed
    /\ UNCHANGED <<listeners, syncInterval>>

CreateRoom(c, roomData, t, f) ==
    Call(c, "createRoom", roomData.id, roomData,
         CreateRoomResult(Repo(c), roomData, t), t, f)

JoinRoom(c, roomId, playerName, t, f) ==
    Call(c, "joinRoom", roomId, playerName,
         JoinRoomResult(Repo(c), roomId, playerName, t), t, f)

LeaveRoom(c, roomId, playerName, t, f) ==
    Call(c, "leaveRoom", roomId, playerName,
         LeaveRoomResult(Repo(c), roomId, playerName, t), t, f)

UpdateRoomStatus(c, roomId, status, t, f) ==
    Call(c, "updateRoomStatus", roomId, status,
         UpdateRoomStatusResult(Repo(c), roomId, status, t), t, f)

UpdateGameState(c, roomId, gameData, t, f) ==
    Call(c, "updateGameState", roomId, gameData,
         UpdateGameStateResult(Repo(c), roomId, gameData, t), t, f)

----------------------------------------------------------------------------
(* Subscriptions, construction, the clock *)

ListenerCount(ls) ==
    Cardinality(UNION {{<<event, i>> : i \in DOMAIN ls[event]} : event \in Channels})

On(c, event, callback) ==
    /\ syncInterval[c] # "none"
    /\ ListenerCount(listeners[c]) < MaxListeners
    /\ listeners' = [listeners EXCEPT ![c] = ListenersOn(@, event, callback)]
    /\ last' = Handler(c, "on", event, callback, Null)
    /\ published' = <<>>
    /\ invoked' = <<>>
    /\ observed' = <<>>
    /\ UNCHANGED <<rooms, gameStates, syncInterval, storage, now, budget, removed>>

Off(c, event, callback) ==
    /\ syncInterval[c] # "none"
    /\ listeners' = [listeners EXCEPT ![c] = ListenersOff(@, event, callback)]
    /\ last' = Handler(c, "off", event, callback, Null)
    /\ published' = <<>>
    /\ invoked' = <<>>
    /\ observed' = <<>>
    /\ UNCHANGED <<rooms, gameStates, syncInterval, storage, now, budget, removed>>

\* getInstance(): in a context that has no manager yet the constructor runs
\* (loadFromStorage, startSync); otherwise the manager the context has is
\* returned as it is, destroyed or not
GetInstance(c) ==
    /\ IF syncInterval[c] = "none"
       THEN LET loaded == LoadFromStorage(storage)
            IN  /\ rooms' = [rooms EXCEPT ![c] = loaded.rooms]
                /\ gameStates' = [gameStates EXCEPT ![c] = loaded.gameStates]
                /\ syncInterval' = [syncInterval EXCEPT ![c] = "active"]
       ELSE UNCHANGED <<rooms, gameStates, syncInterval>>
    /\ last' = Handler(c, "getInstance", "", "", Null)
    /\ published' = <<>>
    /\ invoked' = <<>>
    /\ observed' = <<>>
    /\ UNCHANGED <<listeners, storage, now, budget, removed>>

\* destroy(): clearInterval on the timer, listeners.clear()
Destroy(c) ==
    /\ syncInterval[c] # "none"
    /\ syncInterval' = [syncInterval EXCEPT ![c] = "cleared"]
    /\ listeners' = [listeners EXCEPT ![c] = NoListeners]
    /\ last' = Handler(c, "destroy", "", "", Null)
    /\ published' = <<>>
    /\ invoked' = <<>>
    /\ observed' = <<>>
    /\ UNCHANGED <<rooms, gameStates, storage, now, budget, removed>>

----------------------------------------------------------------------------
(* Specifications *)

\* What an earlier session can have left in localStorage: nothing, or one
\* room created by alice and a game state for it
PriorRoom ==
    WithLastUpdated(RoomData("R1", "alice", <<"alice">>, "waiting", DateObj(0)), 0)

PriorStorage ==
    LET rs == MapSet(<<>>, "R1", PriorRoom)
        gs == MapSet(<<>>, "R1", [roomId |-> "R1", gameData |-> "g1", lastUpdated |-> 0])
    IN  {EmptyStorage, SaveToStorage(EmptyStorage, rs, gs, 0, 0)}

\* The state after every context constructed its manager (loadFromStorage,
\* startSync) over what the earlier session left.
InitWith(n) ==
    /\ storage \in PriorStorage
    /\ rooms = [c \in Contexts |-> LoadFromStorage(storage).rooms]
    /\ gameStates = [c \in Contexts |-> LoadFromStorage(storage).gameStates]
    /\ listeners = [c \in Contexts |-> NoListeners]
    /\ syncInterval = [c \in Contexts |-> "active"]
    /\ now = 0
    /\ budget = n
    /\ last = Handler(1, "constructor", "", "", Null)
    /\ published = <<>>
    /\ invoked = <<>>
    /\ observed = <<>>
    /\ removed = {}

Init == InitWith(MaxOps)

\* Two contexts, the documented callers, a working persistence adapter
Next ==
    \/ \E c \in Contexts : SyncWithOtherDevices(c)
    \/ \E c \in Contexts, t \in Readings : \E roomData \in ScreenRoomData(t) :
            CreateRoom(c, roomData, t, 0)
    \/ \E c \in Contexts, t \in Readings, roomId \in RoomIds, playerName \in Players :
            JoinRoom(c, roomId, playerName, t, 0)
    \/ \E c \in Contexts, t \in Readings, roomId \in RoomIds, playerName \in Players :
            LeaveRoom(c, roomId, playerName, t, 0)
    \/ \E c \in Contexts, t \in Readings, roomId \in RoomIds, status \in Statuses :
            UpdateRoomStatus(c, roomId, status, t, 0)
    \/ \E c \in Contexts, t \in Readings, roomId \in RoomIds, gameData \in Payloads :
            UpdateGameState(c, roomId, gameData, t, 0)

Spec == Init /\ [][Next]_vars

\* One context, any createRoom argument the Room type admits, a working
\* persistence adapter
NextApi ==
    \/ SyncWithOtherDevices(1)
    \/ \E t \in Readings : \E roomData \in AnyRoomData(t) :
            CreateRoom(1, roomData, t, 0)
    \/ \E t \in Readings, roomId \in RoomIds, playerName \in Players :
            JoinRoom(1, roomId, playerName, t, 0)
    \/ \E t \in Readings, roomId \in RoomIds, playerName \in Players :
            LeaveRoom(1, roomId, playerName, t, 0)
    \/ \E t \in Readings, roomId \in RoomIds, status \in Statuses :
            UpdateRoomStatus(1, roomId, status, t, 0)
    \/ \E t \in Readings, roomId \in RoomIds, gameData \in Payloads :
            UpdateGameState(1, roomId, gameData, t, 0)

SpecApi == Init /\ [][NextApi]_vars

\* The channels on which the writes of NextPub make a tick publish
PubChannels == {"rooms", RoomChannel("R1"), GameChannel("R1")}

\* Context 1 subscribes, unsubscribes and ticks while context 2 writes room R1
NextPub ==
    \/ \E event \in PubChannels, callback \in Callbacks : On(1, event, callback)
    \/ \E event \in PubChannels, callback \in Callbacks : Off(1, event, callback)
    \/ SyncWithOtherDevices(1)
    \/ \E t \in Readings, playerName \in Players :
            JoinRoom(2, "R1", playerName, t, 0)
    \/ \E t \in Readings, gameData \in Payloads :
            UpdateGameState(2, "R1", gameData, t, 0)

SpecPub == InitWith(MaxPubOps) /\ [][NextPub]_vars

\* The subscriptions of one context: it subscribes and unsubscribes on two
\* channels and its timer ticks over what the earlier session left
SubChannels == {"rooms", RoomChannel("R1")}

NextSub ==
    \/ \E event \in SubChannels, callback \in Callbacks : On(1, event, callback)
    \/ \E event \in SubChannels, callback \in Callbacks : Off(1, event, callback)
    \/ SyncWithOtherDevices(1)

SpecSub == Init /\ [][NextSub]_vars

\* The room screen is mounted in every context: its handleRoomsUpdate is
\* subscribed to the rooms channel (the effect's on('rooms', ...)), the
\* documented callers call, the timers run
InitNotify ==
    /\ storage \in PriorStorage
    /\ rooms = [c \in Contexts |-> LoadFromStorage(storage).rooms]
    /\ gameStates = [c \in Contexts |-> LoadFromStorage(storage).gameStates]
    /\ listeners = [c \in Contexts |-> ListenersOn(NoListeners, "rooms", "plain")]
    /\ syncInterval = [c \in Contexts |-> "active"]
    /\ now = 0
    /\ budget = MaxOps
    /\ last = Handler(1, "on", "rooms", "plain", Null)
    /\ published = <<>>
    /\ invoked = <<>>
    /\ observed = <<>>
    /\ removed = {}

SpecNotify ==
    /\ InitNotify
    /\ [][Next]_vars
    /\ \A c \in Contexts : WF_vars(SyncWithOtherDevices(c))

\* The setItem of saveToStorage that throws: none, the first, second or third
FailAts == 0..3

\* Context 1 is the only writer and its persistence adapter can fail on any
\* write; both contexts tick
NextFail ==
    \/ \E c \in Contexts : SyncWithOtherDevices(c)
    \/ \E t \in Readings, f \in FailAts : \E roomData \in ScreenRoomData(t) :
            CreateRoom(1, roomData, t, f)
    \/ \E t \in Readings, f \in FailAts, roomId \in RoomIds, playerName \in Players :
            JoinRoom(1, roomId, playerName, t, f)
    \/ \E t \in Readings, f \in FailAts, roomId \in RoomIds, playerName \in Players :
            LeaveRoom(1, roomId, playerName, t, f)
    \/ \E t \in Readings, f \in FailAts, roomId \in RoomIds, status \in Statuses :
            UpdateRoomStatus(1, roomId, status, t, f)
    \/ \E t \in Readings, f \in FailAts, roomId \in RoomIds, gameData \in Payloads :
            UpdateGameState(1, roomId, gameData, t, f)

SpecFail == Init /\ [][NextFail]_vars

\* The life of the managers: context 1 has its manager, context 2 gets one by
\* its first getInstance(); either can be destroyed and asked for again; the
\* subscribers of context 1 consume the payload or tear the manager down;
\* context 2 writes room R1; the timers of the managers not destroyed run.
InitLife ==
    /\ storage \in PriorStorage
    /\ rooms = [c \in Contexts |->
                    IF c = 1 THEN LoadFromStorage(storage).rooms ELSE <<>>]
    /\ gameStates = [c \in Contexts |->
                    IF c = 1 THEN LoadFromStorage(storage).gameStates ELSE <<>>]
    /\ listeners = [c \in Contexts |-> NoListeners]
    /\ syncInterval = [c \in Contexts |-> IF c = 1 THEN "active" ELSE "none"]
    /\ now = 0
    /\ budget = MaxLifeOps
    /\ last = Handler(1, "constructor", "", "", Null)
    /\ published = <<>>
    /\ invoked = <<>>
    /\ observed = <<>>
    /\ removed = {}

LifeChannels == {"rooms", RoomChannel("R1")}
LifeCallbacks == {"plain", "destroyer"}

NextLife ==
    \/ \E c \in Contexts : GetInstance(c)
    \/ \E c \in Contexts : Destroy(c)
    \/ \E c \in Contexts : SyncWithOtherDevices(c)
    \/ \E event \in LifeChannels, callback \in LifeCallbacks : On(1, event, callback)
    \/ \E t \in Readings, playerName \in Players :
            JoinRoom(2, "R1", playerName, t, 0)

SpecLife ==
    /\ InitLife
    /\ [][NextLife]_vars
    /\ \A c \in Contexts : WF_vars(SyncWithOtherDevices(c))

\* Spec with the timers running: setInterval keeps calling the tick of every
\* context whose interval has not been cleared
SpecLive == Spec /\ \A c \in Contexts : WF_vars(SyncWithOtherDevices(c))

----------------------------------------------------------------------------
(* Properties.  A step is recognised by the record it leaves in last. *)

Snapshot == storage.addaMultiplayerSync

\* The step taken is handler op of context c
IsStep(c, op) == last'.ctx = c /\ last'.op = op

\* The room (game state) of the snapshot stored under id, Null if none
SnapshotRoom(id) ==
    IF Snapshot = Null THEN Null
    ELSE LET hits == SelectSeq(Snapshot[1].rooms, LAMBDA r : r.id = id)
         IN  IF hits = <<>> THEN Null ELSE Some(hits[1])

SnapshotGameState(id) ==
    IF Snapshot = Null THEN Null
    ELSE LET hits == SelectSeq(Snapshot[1].gameStates, LAMBDA g : g.roomId = id)
         IN  IF hits = <<>> THEN Null ELSE Some(hits[1])

\* How one tick treats the remote entity, given the local one before and after
Merged(remote, local, after) ==
    /\ local = Null => after = Some(remote)
    /\ local # Null /\ remote.lastUpdated > local[1].lastUpdated
            => after = Some(remote)
    /\ local # Null /\ remote.lastUpdated <= local[1].lastUpdated
            => after = local

\* C1: in one Reconciler tick, every room and every game state of the
\* snapshot replaces its local counterpart when its lastUpdated is strictly
\* greater, is inserted when there is no local counterpart, and leaves the
\* local one unchanged otherwise, the tie included.
C1_MergeLaw ==
    [][\A c \in Contexts :
         (IsStep(c, "sync") /\ Snapshot # Null) =>
            /\ \A i \in DOMAIN Snapshot[1].rooms :
                  LET remote == Snapshot[1].rooms[i]
                  IN  Merged(remote, MapGet(rooms[c], remote.id),
                             MapGet(rooms'[c], remote.id))
            /\ \A i \in DOMAIN Snapshot[1].gameStates :
                  LET remote == Snapshot[1].gameStates[i]
                  IN  Merged(remote, MapGet(gameStates[c], remote.roomId),
                             MapGet(gameStates'[c], remote.roomId))]_vars

\* A tick has just met a tie: the snapshot's room and the local room carry the
\* same lastUpdated and different players, and the local one is still there
C1_TieKeptLocal ==
    /\ last.op = "sync"
    /\ Snapshot # Null
    /\ \E i \in DOMAIN Snapshot[1].rooms :
          LET remote == Snapshot[1].rooms[i]
              local == MapGet(rooms[last.ctx], remote.id)
          IN  /\ local # Null
              /\ local[1].lastUpdated = remote.lastUpdated
              /\ local[1].players # remote.players

\* C2 as claimed: a room removed by leaveRoom, and its game state, stay absent
\* from that context until the context itself calls createRoom or
\* updateGameState for the id.
C2_RemovedStaysAbsent ==
    \A pair \in removed :
        /\ GetRoom(pair[1], pair[2]) = Null
        /\ GetGameState(pair[1], pair[2]) = Null

\* C2 amended: right after the leaveRoom that removes the last player both
\* lookups return null, and from then on (until the context's own createRoom or
\* updateGameState for the id) the room or the game state comes back only by a
\* Reconciler tick of that context that reads a snapshot holding it.
C2_RemovedUntilSnapshotHoldsIt ==
    [][\A c \in Contexts, id \in RoomIds :
         /\ (IsStep(c, "leaveRoom") /\ last'.id = id /\ MapHas(rooms[c], id)
                /\ last'.result = Null)
              => (MapGet(rooms'[c], id) = Null /\ MapGet(gameStates'[c], id) = Null)
         /\ (<<c, id>> \in removed /\ <<c, id>> \in removed'
                /\ MapGet(rooms[c], id) = Null /\ MapGet(rooms'[c], id) # Null)
              => (IsStep(c, "sync") /\ SnapshotRoom(id) # Null)
         /\ (<<c, id>> \in removed /\ <<c, id>> \in removed'
                /\ MapGet(gameStates[c], id) = Null
                /\ MapGet(gameStates'[c], id) # Null)
              => (IsStep(c, "sync") /\ SnapshotGameState(id) # Null)]_vars

\* A tick ran in a context after its leaveRoom removed the room, and both
\* lookups still return null
C2_StillAbsentAfterTick ==
    /\ last.op = "sync"
    /\ Snapshot # Null
    /\ \E id \in RoomIds :
          /\ <<last.ctx, id>> \in removed
          /\ GetRoom(last.ctx, id) = Null
          /\ GetGameState(last.ctx, id) = Null

\* C3: joinRoom by a player who is already in the room returns the stored room
\* and changes nothing: repository, persisted storage and listeners are as
\* before, and the player is in the list once.
C3_JoinIdempotent ==
    [][\A c \in Contexts :
         (IsStep(c, "joinRoom") /\ MapHas(rooms[c], last'.id)
            /\ last'.arg \in Range(MapGet(rooms[c], last'.id)[1].players)) =>
            LET room == MapGet(rooms[c], last'.id)
            IN  /\ last'.result = room
                /\ rooms' = rooms
                /\ gameStates' = gameStates
                /\ storage' = storage
                /\ listeners' = listeners
                /\ Cardinality({i \in DOMAIN room[1].players :
                                    room[1].players[i] = last'.arg}) = 1]_vars

\* joinRoom was just called by a member: it returned the stored room, whose
\* lastUpdated is older than the clock reading of the last stamping call
C3_RejoinReturnedRoom ==
    /\ last.op = "joinRoom"
    /\ last.result # Null
    /\ last.result = GetRoom(last.ctx, last.id)
    /\ last.arg \in Range(last.result[1].players)
    /\ last.result[1].lastUpdated < now

\* C4: joinRoom on a room that holds maxPlayers players, by someone who is not
\* one of them, returns null and changes nothing.
C4_FullRoomRejects ==
    [][\A c \in Contexts :
         (IsStep(c, "joinRoom") /\ MapHas(rooms[c], last'.id)
            /\ last'.arg \notin Range(MapGet(rooms[c], last'.id)[1].players)
            /\ Len(MapGet(rooms[c], last'.id)[1].players)
                  = MapGet(rooms[c], last'.id)[1].maxPlayers) =>
            /\ last'.result = Null
            /\ rooms' = rooms
            /\ gameStates' = gameStates
            /\ storage' = storage]_vars

\* joinRoom has just returned null on a full room
C4_FullRoomRejected ==
    /\ last.op = "joinRoom"
    /\ last.result = Null
    /\ GetRoom(last.ctx, last.id) # Null
    /\ LET room == GetRoom(last.ctx, last.id)[1]
       IN  /\ Len(room.players) = room.maxPlayers
           /\ last.arg \notin Range(room.players)

\* C5: a leaveRoom that keeps the room returns and stores the room with the
\* leaver filtered out of players (the others in their order); the host becomes
\* the first remaining player when the leaver was the host and is unchanged
\* when the leaver was not.
C5_LeaveReassignsHost ==
    [][\A c \in Contexts :
         (IsStep(c, "leaveRoom") /\ last'.result # Null) =>
            LET old == MapGet(rooms[c], last'.id)[1]
                new == last'.result[1]
            IN  /\ MapGet(rooms'[c], last'.id) = last'.result
                /\ new.players = SelectSeq(old.players, LAMBDA p : p # last'.arg)
                /\ old.host = last'.arg => new.host = new.players[1]
                /\ old.host # last'.arg => new.host = old.host]_vars

\* alice, the host, has just left the room she shared with bob: bob is host
C5_HostLeftBobHosts ==
    /\ last.op = "leaveRoom"
    /\ last.arg = "alice"
    /\ last.result # Null
    /\ last.result[1].players = <<"bob">>
    /\ last.result[1].host = "bob"

\* The publications of the room list among the publications p
RoomsPublications(p) == SelectSeq(p, LAMBDA e : e[1] = "rooms")

\* C8 as claimed: every tick publishes exactly one rooms notification carrying
\* the room list after the merge, the snapshot record absent or not.
C8_EveryTickPublishesRooms ==
    [][\A c \in Contexts :
         IsStep(c, "sync") =>
            RoomsPublications(published') = << <<"rooms", MapValues(rooms'[c])>> >>]_vars

\* C8 amended: a tick that finds the snapshot record makes exactly one rooms
\* publication, after all per-entity ones, carrying the room list after the
\* merge, whether or not an entity changed; a tick that finds no snapshot
\* record publishes nothing and changes nothing.
C8_TickPublishesRoomsIfSnapshot ==
    [][\A c \in Contexts :
         IsStep(c, "sync") =>
            IF Snapshot = Null
            THEN published' = <<>> /\ rooms' = rooms /\ gameStates' = gameStates
            ELSE /\ RoomsPublications(published')
                        = << <<"rooms", MapValues(rooms'[c])>> >>
                 /\ published'[Len(published')] = <<"rooms", MapValues(rooms'[c])>>]_vars

\* A tick that merged nothing has published the room list all the same
C8_PublishedWithoutChange ==
    /\ last.op = "sync"
    /\ rooms[last.ctx] # <<>>
    /\ published = << <<"rooms", MapValues(rooms[last.ctx])>> >>

\* C9: a tick removes nothing: every room and game state a context holds
\* before a tick it holds after it, and one the snapshot does not hold is
\* unchanged.
C9_AdditiveOnly ==
    [][\A c \in Contexts :
         IsStep(c, "sync") =>
            /\ \A id \in MapKeys(rooms[c]) :
                  /\ MapHas(rooms'[c], id)
                  /\ SnapshotRoom(id) = Null
                        => MapGet(rooms'[c], id) = MapGet(rooms[c], id)
            /\ \A id \in MapKeys(gameStates[c]) :
                  /\ MapHas(gameStates'[c], id)
                  /\ SnapshotGameState(id) = Null
                        => MapGet(gameStates'[c], id) = MapGet(gameStates[c], id)]_vars

\* A tick has read a snapshot that lacks a room and a game state the context
\* holds, and the context still holds them
C9_KeptWhatSnapshotLacks ==
    /\ last.op = "sync"
    /\ Snapshot # Null
    /\ \E id \in MapKeys(rooms[last.ctx]) : SnapshotRoom(id) = Null
    /\ \E id \in MapKeys(gameStates[last.ctx]) : SnapshotGameState(id) = Null

\* The calls that reach saveToStorage
IsSavingStep(c) ==
    /\ last'.ctx = c
    /\ last'.op \in {"createRoom", "joinRoom", "leaveRoom", "updateRoomStatus",
                     "updateGameState"}
    /\ storage' # storage

\* C10: the lost update.  A call that saves replaces the whole snapshot by the
\* caller's repository, whatever another context wrote there, and a joinRoom
\* that appends returns the updated room all the same; so after two contexts
\* joined different players to one room, the snapshot holds the later
\* writer's room only (the witness), and the earlier writer's next tick takes
\* it over (C1).
C10_SaveOverwritesSnapshot ==
    [][\A c \in Contexts :
         IsSavingStep(c) =>
            /\ Snapshot' = Some([rooms |-> StringifyRooms(MapValues(rooms'[c])),
                                 gameStates |-> MapValues(gameStates'[c]),
                                 lastSync |-> now'])
            /\ last'.op = "joinRoom" =>
                  /\ last'.result # Null
                  /\ last'.arg \in Range(last'.result[1].players)]_vars

\* Two calls were made, one joinRoom in each context on the same room: the
\* first context's repository holds the room with its player, the second
\* context's joinRoom has just returned the room with the other player and
\* without the first, and the snapshot holds that room, stamped later than
\* the first context's
C10_LostUpdate ==
    /\ budget = MaxOps - 2
    /\ last.op = "joinRoom"
    /\ last.result # Null
    /\ \E c \in Contexts \ {last.ctx} :
          /\ GetRoom(c, last.id) # Null
          /\ LET mine == GetRoom(c, last.id)[1]
                 theirs == last.result[1]
             IN  /\ \E p \in Range(mine.players) : p \notin Range(theirs.players)
                 /\ last.arg \notin Range(mine.players)
                 /\ last.arg \in Range(theirs.players)
                 /\ SnapshotRoom(last.id) = Some(StringifyRoom(theirs))
                 /\ theirs.lastUpdated > mine.lastUpdated

\* C6 as claimed: whatever specification is passed, createRoom returns and
\* stores a room with players = [host], status = waiting and lastUpdated set to
\* the clock reading of the call.
C6_CreateAlwaysHostOnlyWaiting ==
    [][\A c \in Contexts :
         IsStep(c, "createRoom") =>
            /\ last'.result # Null
            /\ MapGet(rooms'[c], last'.id) = last'.result
            /\ last'.result[1].players = <<last'.result[1].host>>
            /\ last'.result[1].status = "waiting"
            /\ last'.result[1].lastUpdated = now']_vars

\* C6 amended: createRoom returns and stores under its id a room that has every
\* field of the specification passed, unchanged, and lastUpdated set to the
\* clock reading of the call; so players = [host] and status = waiting hold
\* when the caller assembled the specification that way.
C6_CreateStoresSpecification ==
    [][\A c \in Contexts :
         IsStep(c, "createRoom") =>
            /\ last'.result # Null
            /\ MapGet(rooms'[c], last'.id) = last'.result
            /\ LET room == last'.result[1]
                   roomData == last'.arg
               IN  /\ room.lastUpdated = now'
                   /\ \A field \in DOMAIN roomData : room[field] = roomData[field]
                   /\ DOMAIN room = DOMAIN roomData \cup {"lastUpdated"}
                   /\ (roomData.players = <<roomData.host>>
                            /\ roomData.status = "waiting")
                        => (room.players = <<room.host>> /\ room.status = "waiting")]_vars

\* createRoom has just stored and returned a room assembled with
\* players = [host] and status = waiting
C6_CreatedHostOnlyWaiting ==
    /\ last.op = "createRoom"
    /\ last.arg.players = <<last.arg.host>>
    /\ last.arg.status = "waiting"
    /\ last.result # Null
    /\ GetRoom(last.ctx, last.id) = last.result
    /\ last.result[1].players = <<last.result[1].host>>
    /\ last.result[1].status = "waiting"
    /\ last.result[1].lastUpdated = now

\* The invocations made on channel event among the invocations calls
InvokedOn(calls, event) == SelectSeq(calls, LAMBDA e : e[1] = event)

\* C7: a publish on a channel invokes each callback registered on the channel
\* when the publish starts exactly once, in registration order, whatever the
\* callbacks do to the channel while they run.  (A tick publishes on a channel
\* at most once, and a callback touches only the channel it is called on, so
\* the callbacks registered when the publish starts are those registered when
\* the tick starts.)
C7_PublishInvokesEachOnce ==
    [][\A c \in Contexts :
         IsStep(c, "sync") =>
            \A i \in DOMAIN published' :
               LET event == published'[i][1]
               IN  InvokedOn(invoked', event)
                     = [k \in DOMAIN listeners[c][event] |->
                            <<event, listeners[c][event][k]>>]]_vars

\* The repository of context c holds the rooms and game states of the
\* snapshot, each in the snapshot's version, and no others
RepoMatchesSnapshot(c) ==
    LET data == IF Snapshot = Null THEN [rooms |-> <<>>, gameStates |-> <<>>]
                ELSE Snapshot[1]
    IN  /\ Range(StringifyRooms(MapValues(rooms[c]))) = Range(data.rooms)
        /\ Range(MapValues(gameStates[c])) = Range(data.gameStates)

\* C11: eventual consistency.  Once the mutating calls have stopped and the
\* ticks go on, every context's repository eventually holds, and keeps holding,
\* exactly the rooms and game states of the snapshot in the snapshot's versions
\* (so all contexts hold the same).
C11_EventuallyConsistent ==
    <>[](\A c \in Contexts : RepoMatchesSnapshot(c))

\* The step is a call of context c that stamps room id: a createRoom, a
\* joinRoom that appends, a leaveRoom that keeps the room or an
\* updateRoomStatus, on a room the context already holds
StampsHeldRoom(c, id) ==
    /\ last'.ctx = c
    /\ last'.id = id
    /\ MapHas(rooms[c], id)
    /\ \/ last'.op = "createRoom"
       \/ /\ last'.op = "joinRoom"
          /\ last'.result # Null
          /\ last'.arg \notin Range(MapGet(rooms[c], id)[1].players)
       \/ last'.op = "leaveRoom" /\ last'.result # Null
       \/ last'.op = "updateRoomStatus" /\ last'.result # Null

\* C12: every mutation of a room stores a lastUpdated strictly greater than
\* the one the room had in that repository before the call.
C12_LastUpdatedStrictlyIncreases ==
    [][\A c \in Contexts, id \in RoomIds :
         StampsHeldRoom(c, id) =>
            MapGet(rooms'[c], id)[1].lastUpdated
                > MapGet(rooms[c], id)[1].lastUpdated]_vars

\* A tick of the context that ran last has just taken over room id from the
\* snapshot
JustMerged(id) ==
    /\ last.op = "sync"
    /\ \E i \in DOMAIN published : published[i][1] = RoomChannel(id)

\* C13: capacity.  Every room of every repository holds at most maxPlayers
\* players.
C13_CapacityInvariant ==
    \A c \in Contexts : \A i \in DOMAIN rooms[c] :
        Len(rooms[c][i][2].players) <= rooms[c][i][2].maxPlayers

\* A tick has just merged in a room that another context filled to capacity
C13_FullRoomMerged ==
    \E id \in RoomIds :
        /\ JustMerged(id)
        /\ LET room == GetRoom(last.ctx, id)[1]
           IN  Len(room.players) = room.maxPlayers

\* C14: host.  Every room of every repository whose player list is non-empty
\* has its host among its players.
C14_HostInvariant ==
    \A c \in Contexts : \A i \in DOMAIN rooms[c] :
        LET room == rooms[c][i][2]
        IN  room.players # <<>> => room.host \in Range(room.players)

\* A tick has just merged in a room whose first host left in another context:
\* the host is the player who stayed
C14_NewHostMerged ==
    \E id \in RoomIds :
        /\ JustMerged(id)
        /\ LET room == GetRoom(last.ctx, id)[1]
           IN  /\ room.host # "alice"
               /\ room.host \in Range(room.players)
               /\ "alice" \notin Range(room.players)

\* The rooms stored anywhere: in a repository or under a localStorage key
StoredRooms ==
    UNION {Range(MapValues(rooms[c])) : c \in Contexts}
      \cup (IF storage.addaGameRooms = Null THEN {}
            ELSE Range(storage.addaGameRooms[1]))
      \cup (IF Snapshot = Null THEN {} ELSE Range(Snapshot[1].rooms))

\* C15: no stored room, in a repository or in the persisted snapshot, has zero
\* players; a leaveRoom that empties a room deletes it.
C15_NoEmptyRoom ==
    \A room \in StoredRooms : room.players # <<>>

\* leaveRoom has just taken the last player out of a room: the room is neither
\* in the caller's repository nor in what the call persisted
C15_EmptiedRoomDeleted ==
    /\ last.op = "leaveRoom"
    /\ last.result = Null
    /\ <<last.ctx, last.id>> \in removed
    /\ GetRoom(last.ctx, last.id) = Null
    /\ Snapshot # Null
    /\ SnapshotRoom(last.id) = Null
    /\ \A room \in Range(storage.addaGameRooms[1]) : room.id # last.id

\* C16: referential integrity.  Every game state of every repository belongs
\* to a room of the same repository.
C16_GameStateHasRoom ==
    \A c \in Contexts : MapKeys(gameStates[c]) \subseteq MapKeys(rooms[c])

\* C17: NotFound.  joinRoom, leaveRoom and updateRoomStatus on an id the
\* repository does not hold return null and change neither the repository nor
\* the persisted storage nor the listeners; getRoom and getGameState return
\* null for every id the repository does not hold.
C17_NotFoundHasNoEffect ==
    [][\A c \in Contexts, id \in RoomIds :
         /\ (/\ last'.ctx = c
             /\ last'.id = id
             /\ last'.op \in {"joinRoom", "leaveRoom", "updateRoomStatus"}
             /\ ~MapHas(rooms[c], id)) =>
                /\ last'.result = Null
                /\ rooms' = rooms
                /\ gameStates' = gameStates
                /\ storage' = storage
                /\ listeners' = listeners
         /\ ~MapHas(rooms[c], id) => GetRoom(c, id) = Null
         /\ ~MapHas(gameStates[c], id) => GetGameState(c, id) = Null]_vars

\* updateRoomStatus has just returned null for an id its context does not
\* hold, while the context holds another room
C17_NotFoundReturned ==
    /\ last.op = "updateRoomStatus"
    /\ last.result = Null
    /\ GetRoom(last.ctx, last.id) = Null
    /\ GetGameState(last.ctx, last.id) = Null
    /\ rooms[last.ctx] # <<>>

\* What operation op returns and leaves in the repository rp when the
\* persistence adapter works
Outcome(op, rp, id, arg, t) ==
    CASE op = "createRoom" -> CreateRoomResult(rp, arg, t)
      [] op = "joinRoom" -> JoinRoomResult(rp, id, arg, t)
      [] op = "leaveRoom" -> LeaveRoomResult(rp, id, arg, t)
      [] op = "updateRoomStatus" -> UpdateRoomStatusResult(rp, id, arg, t)
      [] op = "updateGameState" -> UpdateGameStateResult(rp, id, arg, t)

MutatingOps ==
    {"createRoom", "joinRoom", "leaveRoom", "updateRoomStatus", "updateGameState"}

\* C18: a mutating call whose write to the persisted storage failed (the
\* storage is not what a complete saveToStorage leaves) still leaves the
\* mutation in the caller's repository and returns what it returns when the
\* write succeeds; nothing else in memory changes.
C18_WriteFailureDoesNotPropagate ==
    [][\A c \in Contexts :
         (last'.ctx = c /\ last'.op \in MutatingOps) =>
            LET out == Outcome(last'.op, Repo(c), last'.id, last'.arg, now')
            IN  (/\ out.save
                 /\ storage' # SaveToStorage(storage, out.rooms, out.gameStates,
                                             now', 0)) =>
                    /\ rooms' = [rooms EXCEPT ![c] = out.rooms]
                    /\ gameStates' = [gameStates EXCEPT ![c] = out.gameStates]
                    /\ last'.result = out.result
                    /\ listeners' = listeners]_vars

\* joinRoom has just returned the room with the new player, the repository
\* holds it, and the snapshot does not: the write failed
C18_FailedWriteKeptMutation ==
    /\ last.op = "joinRoom"
    /\ last.result # Null
    /\ last.result[1].players[Len(last.result[1].players)] = last.arg
    /\ last.result[1].lastUpdated = now
    /\ GetRoom(last.ctx, last.id) = last.result
    /\ SnapshotRoom(last.id) # Some(StringifyRoom(last.result[1]))

\* C19: after a failed write the repository stays authoritative.  While
\* context 1 is the only writer of the snapshot, no tick of context 1 changes
\* its repository: a mutation a failed write left un-persisted, the removal of
\* a room and its game state included, is never reverted.
C19_TickKeepsUnpersisted ==
    [][IsStep(1, "sync") =>
         /\ rooms'[1] = rooms[1]
         /\ gameStates'[1] = gameStates[1]]_vars

\* C20: teardown.  Once a manager is destroyed it stays destroyed, whatever
\* getInstance() calls follow, and its tick never runs again; a tick invokes no
\* callback after one of the callbacks it invoked has called destroy(); and the
\* tick of a manager that is not destroyed keeps occurring.
C20_TeardownFinal ==
    /\ [][\A c \in Contexts :
            /\ syncInterval[c] = "cleared" =>
                  (syncInterval'[c] = "cleared" /\ ~IsStep(c, "sync"))
            /\ IsStep(c, "sync") =>
                  \A i \in DOMAIN invoked' :
                      invoked'[i][2] = "destroyer" => i = Len(invoked')]_vars
    /\ \A c \in Contexts :
          []<>(syncInterval[c] # "active" \/ (last.ctx = c /\ last.op = "sync"))

\* C21: subscriptions are an ordered multiset.  on appends the callback to the
\* channel's list, whether or not it is there already; off removes the earliest
\* entry equal to the callback and leaves the others in their order, and
\* changes nothing when there is none; a publish on a channel whose callbacks
\* leave the channel alone invokes every entry, so a callback registered k
\* times is invoked k times.
C21_OrderedMultiset ==
    [][\A c \in Contexts, event \in Channels :
         LET array == listeners[c][event]
         IN  /\ (IsStep(c, "on") /\ last'.id = event) =>
                    listeners' = [listeners EXCEPT
                                     ![c][event] = Append(array, last'.arg)]
             /\ (IsStep(c, "off") /\ last'.id = event) =>
                    IF last'.arg \in Range(array)
                    THEN \E i \in DOMAIN array :
                            /\ array[i] = last'.arg
                            /\ \A j \in 1..(i - 1) : array[j] # last'.arg
                            /\ listeners' = [listeners EXCEPT ![c][event] =
                                                SubSeq(array, 1, i - 1)
                                                   \o SubSeq(array, i + 1, Len(array))]
                    ELSE listeners' = listeners
             /\ (/\ IsStep(c, "sync")
                 /\ \E i \in DOMAIN published' : published'[i][1] = event
                 /\ Range(array) \subseteq {"plain"}) =>
                    /\ Len(InvokedOn(invoked', event)) = Len(array)
                    /\ listeners'[c][event] = array]_vars

\* off(plain) has just removed the earlier of two registrations of plain: the
\* one registered after once is still there, behind it
C21_EarliestRemoved ==
    /\ last.op = "off"
    /\ last.arg = "plain"
    /\ listeners[last.ctx][last.id] = <<"once", "plain">>

\* C22: updateRoomStatus on a room the repository holds stores and returns
\* that room with status set to the status passed, whatever the status was,
\* and lastUpdated set to the clock reading; every other field of the room,
\* every other room, the order of the rooms and every game state are unchanged.
C22_StatusOverwrittenOnly ==
    [][\A c \in Contexts :
         (IsStep(c, "updateRoomStatus") /\ MapHas(rooms[c], last'.id)) =>
            LET old == MapGet(rooms[c], last'.id)[1]
                new == [old EXCEPT !.status = last'.arg, !.lastUpdated = now']
            IN  /\ last'.result = Some(new)
                /\ rooms' = [rooms EXCEPT ![c] = MapSet(@, last'.id, new)]
                /\ gameStates' = gameStates
                /\ \A field \in DOMAIN old \ {"status", "lastUpdated"} :
                      last'.result[1][field] = old[field]]_vars

\* updateRoomStatus has just set a room back to waiting whose earlier version,
\* still held by another context, is finished
C22_FinishedBackToWaiting ==
    /\ last.op = "updateRoomStatus"
    /\ last.arg = "waiting"
    /\ last.result # Null
    /\ last.result[1].status = "waiting"
    /\ \E c \in Contexts \ {last.ctx} :
          /\ GetRoom(c, last.id) # Null
          /\ GetRoom(c, last.id)[1].status = "finished"
          /\ GetRoom(c, last.id)[1].lastUpdated < last.result[1].lastUpdated

\* C23: updateGameState(roomId, payload) leaves under roomId exactly the game
\* state {roomId, payload, clock reading}; and a game state a context holds
\* changes only by that context's updateGameState for the room, by its
\* leaveRoom that deletes the room (the game state goes with it), or by its
\* tick when the snapshot holds a game state for the room with a strictly
\* greater lastUpdated (which replaces it).
C23_GameStateReplacedWhole ==
    [][\A c \in Contexts, id \in RoomIds :
         LET before == MapGet(gameStates[c], id)
             after == MapGet(gameStates'[c], id)
         IN  /\ (IsStep(c, "updateGameState") /\ last'.id = id) =>
                    after = Some([roomId |-> id, gameData |-> last'.arg,
                                  lastUpdated |-> now'])
             /\ (before # Null /\ after # before) =>
                    \/ IsStep(c, "updateGameState") /\ last'.id = id
                    \/ /\ IsStep(c, "leaveRoom") /\ last'.id = id
                       /\ after = Null
                       /\ MapGet(rooms'[c], id) = Null
                    \/ /\ IsStep(c, "sync")
                       /\ SnapshotGameState(id) # Null
                       /\ SnapshotGameState(id)[1].lastUpdated
                              > before[1].lastUpdated
                       /\ after = SnapshotGameState(id)]_vars

\* updateGameState has just replaced the game state an earlier session left:
\* the caller holds the new payload, the other context still the old one
C23_PayloadReplaced ==
    /\ last.op = "updateGameState"
    /\ GetGameState(last.ctx, last.id)
          = Some([roomId |-> last.id, gameData |-> last.arg, lastUpdated |-> now])
    /\ \E c \in Contexts \ {last.ctx} :
          /\ GetGameState(c, last.id) # Null
          /\ GetGameState(c, last.id)[1].gameData # last.arg

\* The step is a mutating call of context c that reached saveToStorage
SavedBy(c) ==
    /\ last'.ctx = c
    /\ last'.op \in MutatingOps
    /\ Outcome(last'.op, Repo(c), last'.id, last'.arg, now').save

\* C24: write-through.  After a mutating call that saved with a working
\* adapter, the room collection key and the rooms of the combined snapshot both
\* equal the caller's room list, and the game-state collection key and the
\* game states of the combined snapshot both equal its game-state list.
C24_PersistedEqualsRepository ==
    [][\A c \in Contexts :
         SavedBy(c) =>
            /\ storage'.addaGameRooms = Some(MapValues(rooms'[c]))
            /\ storage'.addaGameStates = Some(MapValues(gameStates'[c]))
            /\ storage'.addaMultiplayerSync # Null
            /\ storage'.addaMultiplayerSync[1].rooms = MapValues(rooms'[c])
            /\ storage'.addaMultiplayerSync[1].gameStates
                  = MapValues(gameStates'[c])]_vars

\* The publications on channel event among the publications p
PublicationsOn(p, event) == SelectSeq(p, LAMBDA e : e[1] = event)

\* What one tick does on channel event about the entity the snapshot holds as
\* remote and the repository held as local: when there is a remote entity and
\* no local one, or the remote lastUpdated is strictly greater, the entity
\* becomes the remote one and exactly one notification carries it; otherwise
\* the entity is unchanged and nothing is published on the channel
NotifiedIffTaken(remote, local, after, pubs, event) ==
    IF remote # Null /\ (local = Null \/ remote[1].lastUpdated > local[1].lastUpdated)
    THEN after = remote /\ pubs = << <<event, remote[1]>> >>
    ELSE after = local /\ pubs = <<>>

\* C25: in one tick a notification on room:<id> (game:<roomId>) is published
\* if and only if the tick inserted or overwrote that entity from the snapshot,
\* and then once, with the snapshot's entity as payload; an entity whose
\* snapshot version is not strictly newer gets none.
C25_NotifiedIffOverwritten ==
    [][\A c \in Contexts, id \in RoomIds :
         IsStep(c, "sync") =>
            /\ NotifiedIffTaken(SnapshotRoom(id), MapGet(rooms[c], id),
                                MapGet(rooms'[c], id),
                                PublicationsOn(published', RoomChannel(id)),
                                RoomChannel(id))
            /\ NotifiedIffTaken(SnapshotGameState(id), MapGet(gameStates[c], id),
                                MapGet(gameStates'[c], id),
                                PublicationsOn(published', GameChannel(id)),
                                GameChannel(id))]_vars

\* A tick has just published the room it took over and nothing for the game
\* state of the same room, which the snapshot holds in the version the context
\* already had
C25_RoomNotifiedGameNot ==
    /\ last.op = "sync"
    /\ \E id \in RoomIds :
          /\ GetRoom(last.ctx, id) # Null
          /\ PublicationsOn(published, RoomChannel(id))
                = << <<RoomChannel(id), GetRoom(last.ctx, id)[1]>> >>
          /\ PublicationsOn(published, GameChannel(id)) = <<>>
          /\ SnapshotGameState(id) # Null
          /\ SnapshotGameState(id) = GetGameState(last.ctx, id)

\* The tick of context c has just delivered a room list payload to the
\* subscriber of its rooms channel
Delivered(c) ==
    /\ last.ctx = c
    /\ last.op = "sync"
    /\ <<"rooms", "plain">> \in Range(invoked)

\* The versions of room id in the room list payloads just published
PayloadRooms(id) ==
    UNION {{room \in Range(p[2]) : room.id = id} :
                p \in Range(PublicationsOn(published, "rooms"))}

\* The call that ran last is a successful op(id, arg) of context c
Mutated(c, op, id, arg) ==
    /\ last.ctx = c /\ last.op = op /\ last.id = id
    /\ CASE op = "createRoom" -> TRUE
         [] op = "leaveRoom" ->
                /\ last.arg = arg
                /\ \/ last.result # Null
                   \/ <<c, id>> \in removed /\ ~MapHas(rooms[c], id)
         [] OTHER -> last.arg = arg /\ last.result # Null

\* The room list just delivered in context c shows what op(id, arg) did
Reflected(c, op, id, arg) ==
    /\ Delivered(c)
    /\ CASE op = "createRoom" -> PayloadRooms(id) # {}
         [] op = "joinRoom" ->
                \E room \in PayloadRooms(id) : arg \in Range(room.players)
         [] op = "leaveRoom" ->
                \A room \in PayloadRooms(id) : arg \notin Range(room.players)
         [] op = "updateRoomStatus" ->
                \E room \in PayloadRooms(id) : room.status = arg

RoomChangesOnlyByOwnCallOrNewer ==
    \A c \in Contexts, id \in RoomIds :
        GetRoom(c, id)' # GetRoom(c, id) =>
            \/ /\ last'.ctx = c
               /\ last'.op \in {"createRoom", "joinRoom", "leaveRoom",
                                "updateRoomStatus"}
               /\ last'.id = id
            \/ /\ IsStep(c, "sync")
               /\ SnapshotRoom(id) # Null
               /\ GetRoom(c, id)' = SnapshotRoom(id)
               /\ \/ GetRoom(c, id) = Null
                  \/ SnapshotRoom(id)[1].lastUpdated
                        > GetRoom(c, id)[1].lastUpdated

C27_CreateRoomReplacesWholesale ==
    [][\A c \in Contexts, id \in RoomIds :
         IsStep(c, "createRoom") /\ last'.id = id /\ GetRoom(c, id) # Null =>
            /\ last'.result = Some(WithLastUpdated(last'.arg, now'))
            /\ GetRoom(c, id)' = last'.result
            /\ gameStates'[c] = gameStates[c]
            /\ \A other \in RoomIds \ {id} :
                    GetRoom(c, other)' = GetRoom(c, other)
            /\ SnapshotRoom(id)' = Some(StringifyRoom(last'.result[1]))]_vars

\* Context 1 created R1 over the R1 it held, which had a game state; context 2
\* still holds the two-player room; context 1 has the new one-player room and
\* the old game state
C27_RoomReplacedGameStateKept ==
    /\ last.ctx = 1 /\ last.op = "createRoom" /\ last.id = "R1"
    /\ GetRoom(1, "R1") = last.result
    /\ GetRoom(1, "R1")[1].players = <<"alice">>
    /\ GetRoom(2, "R1") # Null
    /\ GetRoom(2, "R1")[1].players = <<"alice", "bob">>
    /\ GetGameState(1, "R1") # Null
    /\ GetGameState(1, "R1")[1].gameData = "g1"

\* C28: a tick writes none of the three persisted keys, so storage is the
\* same before and after it; storage changes only in a mutating call, which
\* writes the caller's repository, so a room or game state the snapshot does
\* not hold enters it only from the repository of the context whose mutating
\* call is running
C28_TickNeverPersists ==
    [][/\ \A c \in Contexts : IsStep(c, "sync") => storage' = storage
       /\ storage' # storage =>
            /\ last'.op \in MutatingOps
            /\ storage' = SaveToStorage(storage, rooms'[last'.ctx],
                                        gameStates'[last'.ctx], now', 0)
       /\ \A c \in Contexts, id \in RoomIds :
            /\ c = last'.ctx /\ SnapshotRoom(id) = Null
                             /\ SnapshotRoom(id)' # Null =>
                    /\ last'.op \in MutatingOps
                    /\ GetRoom(c, id)' # Null
                    /\ SnapshotRoom(id)' = Some(StringifyRoom(GetRoom(c, id)'[1]))
            /\ c = last'.ctx /\ SnapshotGameState(id) = Null
                             /\ SnapshotGameState(id)' # Null =>
                    /\ last'.op \in MutatingOps
                    /\ SnapshotGameState(id)' = GetGameState(c, id)']_vars

\* Context 1 holds room R2, which neither the snapshot nor context 2 holds,
\* and context 1's tick has just run over a snapshot that exists: the room is
\* still absent from the snapshot
C28_LocalOnlyAfterTick ==
    /\ last.ctx = 1 /\ last.op = "sync"
    /\ Snapshot # Null
    /\ GetRoom(1, "R2") # Null
    /\ GetRoom(2, "R2") = Null
    /\ SnapshotRoom("R2") = Null
    /\ <<"rooms", MapValues(rooms[1])>> \in Range(published)

\* The mutating calls publish nothing and invoke no callback
MutationsPublishNothing ==
    last'.op \in MutatingOps => published' = <<>> /\ invoked' = <<>>

\* A tick of context c notifies on the channels of an entity that c's own
\* leaveRoom removed only when c holds the entity again and the snapshot's
\* version is strictly newer than the one c holds
OwnRemovalNotNotified ==
    \A c \in Contexts, id \in RoomIds :
        IsStep(c, "sync") /\ <<c, id>> \in removed =>
            /\ PublicationsOn(published', RoomChannel(id)) # <<>> =>
                    /\ GetRoom(c, id) # Null
                    /\ SnapshotRoom(id)[1].lastUpdated
                            > GetRoom(c, id)[1].lastUpdated
            /\ PublicationsOn(published', GameChannel(id)) # <<>> =>
                    /\ GetGameState(c, id) # Null
                    /\ SnapshotGameState(id)[1].lastUpdated
                            > GetGameState(c, id)[1].lastUpdated

\* C29 (as stated): createRoom, joinRoom, leaveRoom, updateRoomStatus and
\* updateGameState publish on no channel, and no later tick of a context
\* notifies room:<id> or game:<roomId> because of the context's own mutation:
\* it does so only for a version strictly newer than the one the context holds
C29_MutationsNeverNotifySelf ==
    [][MutationsPublishNothing /\ OwnRemovalNotNotified]_vars

RoomChannels == {RoomChannel(id) : id \in RoomIds}
GameChannels == {GameChannel(id) : id \in RoomIds}

RECURSIVE RoomsAfter(_, _, _)
\* The rooms map rs after the rooms published by the first i entries of pubs
\* were set in it
RoomsAfter(rs, pubs, i) ==
    IF i = 0 THEN rs
    ELSE LET prev == RoomsAfter(rs, pubs, i - 1)
         IN  IF pubs[i][1] \in RoomChannels
             THEN MapSet(prev, pubs[i][2].id, pubs[i][2]) ELSE prev

RECURSIVE GameStatesAfter(_, _, _)
\* The game states map gs after the game states published by the first i
\* entries of pubs were set in it
GameStatesAfter(gs, pubs, i) ==
    IF i = 0 THEN gs
    ELSE LET prev == GameStatesAfter(gs, pubs, i - 1)
         IN  IF pubs[i][1] \in GameChannels
             THEN MapSet(prev, pubs[i][2].roomId, pubs[i][2]) ELSE prev

\* C30: in a tick that finds the snapshot, each room:<id> and game:<roomId>
\* notification is delivered when its entity has just been stored and before
\* the next entity is looked at: its callbacks find the repository with
\* exactly the entities notified so far merged. All room notifications come
\* before all game notifications, and the one rooms notification is the last
\* and finds the repository as the tick leaves it. A room callback therefore
\* finds none of the snapshot's game states and none of its later rooms merged
C30_NotificationOrder ==
    [][\A c \in Contexts : IsStep(c, "sync") /\ Snapshot # Null =>
         LET n == Len(published')
         IN  /\ n >= 1
             /\ Len(observed') = n
             /\ published'[n] = <<"rooms", MapValues(rooms'[c])>>
             /\ observed'[n] = [rooms |-> rooms'[c], gameStates |-> gameStates'[c]]
             /\ \A i \in 1..(n - 1) :
                    /\ published'[i][1] \in RoomChannels \cup GameChannels
                    /\ observed'[i].rooms = RoomsAfter(rooms[c], published', i)
                    /\ observed'[i].gameStates
                         = GameStatesAfter(gameStates[c], published', i)
                    /\ published'[i][1] \in RoomChannels =>
                            /\ observed'[i].gameStates = gameStates[c]
                            /\ MapGet(observed'[i].rooms, published'[i][2].id)
                                 = Some(published'[i][2])
                    /\ published'[i][1] \in GameChannels =>
                            /\ observed'[i].rooms = rooms'[c]
                            /\ MapGet(observed'[i].gameStates,
                                      published'[i][2].roomId)
                                 = Some(published'[i][2])
             /\ \A i, j \in 1..(n - 1) :
                    i < j => ~(/\ published'[i][1] \in GameChannels
                               /\ published'[j][1] \in RoomChannels)]_vars

\* A tick of context 2 notified room:R1, room:R2, game:R1 and rooms in this
\* order; the room:R1 callbacks found a repository without R2 and without the
\* game state of R1, both of which the tick then merged
C30_RoomCallbackSawPartialMerge ==
    /\ last.ctx = 2 /\ last.op = "sync"
    /\ Len(published) = 4
    /\ published[1][1] = RoomChannel("R1")
    /\ published[2][1] = RoomChannel("R2")
    /\ published[3][1] = GameChannel("R1")
    /\ published[4][1] = "rooms"
    /\ ~MapHas(observed[1].rooms, "R2")
    /\ ~MapHas(observed[1].gameStates, "R1")
    /\ MapHas(rooms[2], "R2")
    /\ MapHas(gameStates[2], "R1")

====
